---- MODULE Spec2Model ----
(***************************************************************************)
(* The contact-form Worker of chalet-josephine: one request handled by     *)
(* fetch(request, env), in its two deployments (MailChannels relay and     *)
(* Resend with a bearer key).  Strings are sequences: field values and     *)
(* e-mail addresses are sequences of characters, origins are sequences of  *)
(* lexical pieces, fixed texts are one-piece sequences.                    *)
(***************************************************************************)
EXTENDS Integers, Sequences, FiniteSets, TLC

\* Largest number of required fields of a JSON object body that differ from
\* the valid enquiry.
MaxDeviations == 2

---------------------------------------------------------------------------
\* JavaScript values

Undefined == [t |-> "undefined", s |-> <<>>]
Null      == [t |-> "null", s |-> <<>>]
Num       == [t |-> "number", s |-> <<"5">>]
Str(s)    == [t |-> "string", s |-> s]

\* ToBoolean, as `!x` and `x || y` apply it.
Truthy(v) == \/ v.t = "string" /\ v.s # <<>>
             \/ v.t = "number"

\* \s of the regular expression and the characters String.prototype.trim strips.
IsWhitespace(c) == c = " "

RECURSIVE TrimStart(_)
TrimStart(s) == IF s # <<>> /\ IsWhitespace(Head(s)) THEN TrimStart(Tail(s)) ELSE s

RECURSIVE TrimEnd(_)
TrimEnd(s) == IF s # <<>> /\ IsWhitespace(s[Len(s)])
              THEN TrimEnd(SubSeq(s, 1, Len(s) - 1)) ELSE s

\* The loop without its trim: whitespace counts as content.
Trim_Omitted(s) == s

Trim(s) == TrimEnd(TrimStart(s))

\* s.endsWith(suffix)
EndsWith(s, suffix) ==
    /\ Len(suffix) <= Len(s)
    /\ SubSeq(s, Len(s) - Len(suffix) + 1, Len(s)) = suffix

---------------------------------------------------------------------------
\* Program constants

ALLOWED_ORIGIN == <<"https://", "www", ".", "chalet-josephine", ".", "com">>

SubdomainSuffix == <<".", "chalet-josephine", ".", "com">>

required == <<"first_name", "last_name", "email", "arrival_date", "departure_date", "guests">>

DefaultToEmail == <<"info@chalet-josephine.com">>

FromEmail == <<"noreply@chalet-josephine.com">>

MsgMethodNotAllowed == <<"Method not allowed">>
MsgInvalidBody      == <<"Invalid request body">>
MsgMissingField(f)  == <<"Missing required field: ", f>>
MsgInvalidEmail     == <<"Invalid email address">>
MsgNotConfigured    == <<"Email service not configured">>
MsgDeliveryFailed   == <<"Failed to send enquiry. Please try again or contact us directly.">>
MsgReceived         == <<"Enquiry received. We will respond within 24 hours.">>

---------------------------------------------------------------------------
\* The e-mail test /^[^\s@]+@[^\s@]+\.[^\s@]+$/ as the automaton the
\* expression denotes.  States: 0 start, 1 in the local part, 2 after "@",
\* 3 in the domain part, 4 after the literal ".", 5 in the last part.

InClass(c) == ~IsWhitespace(c) /\ c # "@"

RegexStep(q, c) ==
    CASE q = 0 -> IF InClass(c) THEN {1} ELSE {}
      [] q = 1 -> (IF InClass(c) THEN {1} ELSE {}) \cup (IF c = "@" THEN {2} ELSE {})
      [] q = 2 -> IF InClass(c) THEN {3} ELSE {}
      [] q = 3 -> (IF InClass(c) THEN {3} ELSE {}) \cup (IF c = "." THEN {4} ELSE {})
      [] q = 4 -> IF InClass(c) THEN {5} ELSE {}
      [] q = 5 -> IF InClass(c) THEN {5} ELSE {}

RECURSIVE RegexRun(_, _)
RegexRun(qs, s) ==
    IF s = <<>> THEN qs
    ELSE RegexRun(UNION {RegexStep(q, Head(s)) : q \in qs}, Tail(s))

\* The expression without its closing anchor: a match of a prefix suffices.
RECURSIVE RegexRunUnanchored(_, _)
RegexRunUnanchored(qs, s) ==
    IF s = <<>> \/ 5 \in qs THEN qs
    ELSE RegexRunUnanchored(UNION {RegexStep(q, Head(s)) : q \in qs}, Tail(s))

EmailRegexTest_Unanchored(s) == 5 \in RegexRunUnanchored({0}, s)

EmailRegexTest(s) == 5 \in RegexRun({0}, s)

---------------------------------------------------------------------------
\* Requests and deployments

Methods == {"OPTIONS", "POST", "GET"}

\* The Origin header: absent, or one of these values.
OriginValues ==
    { ALLOWED_ORIGIN,
      <<"https://", "booking", ".", "www", ".", "chalet-josephine", ".", "com">>,
      <<"https://", "staging", ".", "chalet-josephine", ".", "com">>,
      <<"https://", "a", ".", "b", ".", "chalet-josephine", ".", "com">>,
      <<"https://", "evil", ".", "example", "/", ".", "chalet-josephine", ".", "com">>,
      <<"https://", "evil", ".", "example">> }

OriginHeaders == {Null} \cup {Str(o) : o \in OriginValues}

ValidEmail == <<"a", "@", "a", ".", "a">>

FieldNames == {required[i] : i \in 1..Len(required)}

ValidFields == [f \in FieldNames |-> IF f = "email" THEN Str(ValidEmail) ELSE Str(<<"a">>)]

\* What a field other than email may hold instead of its valid text.
PlainDeviations == {Undefined, Null, Num, Str(<<" ">>)}

\* What the email field may hold instead of the valid address.
EmailDeviations ==
    PlainDeviations \cup
    { Str(<<"a", "@", "a">>),
      Str(<<"a", "@", "a", ".", "a", " ">>),
      Str(<<"@", "a", ".", "a">>),
      Str(<<"a", "@", "a", ".">>),
      Str(<<"a", "@", ".", "a">>),
      Str(<<"a", ".", "a", "@", "a", ".", "a", ".", "a">>) }

Deviations(f) == IF f = "email" THEN EmailDeviations ELSE PlainDeviations

ObjectFields ==
    UNION { { [f \in FieldNames |-> IF f \in S THEN g[f] ELSE ValidFields[f]] :
                g \in {h \in [S -> EmailDeviations] : \A f \in S : h[f] \in Deviations(f)} } :
            S \in {T \in SUBSET FieldNames : Cardinality(T) <= MaxDeviations} }

NoFields == [f \in FieldNames |-> Undefined]

\* A request body: text that is not JSON, the JSON values null and 5, or a
\* JSON object.
Bodies ==
    { [kind |-> "malformed", fields |-> NoFields],
      [kind |-> "null", fields |-> NoFields],
      [kind |-> "number", fields |-> NoFields] }
    \cup { [kind |-> "object", fields |-> o] : o \in ObjectFields }

Variants == {"mailchannels", "resend"}

Envs == [ RESEND_API_KEY : {Undefined, Str(<<>>), Str(<<"re_key">>)},
          TO_EMAIL : {Undefined, Str(<<"owner@example.com">>)} ]

---------------------------------------------------------------------------
\* Responses

HdrOrigin  == "Access-Control-Allow-Origin"
HdrMethods == "Access-Control-Allow-Methods"
HdrHeaders == "Access-Control-Allow-Headers"
HdrType    == "Content-Type"

\* request.headers.get('Origin') || ''
OriginOf(req) == IF Truthy(req.origin) THEN req.origin.s ELSE <<>>

corsHeaders(req) ==
    LET origin  == OriginOf(req)
        allowed == origin = ALLOWED_ORIGIN \/ EndsWith(origin, SubdomainSuffix)
    IN  (HdrOrigin :> (IF allowed THEN origin ELSE ALLOWED_ORIGIN))
        @@ (HdrMethods :> <<"POST, OPTIONS">>)
        @@ (HdrHeaders :> <<"Content-Type">>)

\* A JSON body is its list of members; the body of new Response(null) is empty.
ErrorBody(msg) == << <<"error", msg>> >>

SuccessBody == << <<"success", <<"true">> >>, <<"message", MsgReceived>> >>

jsonResponse(body, status, req) ==
    [ status  |-> status,
      body    |-> body,
      headers |-> (HdrType :> <<"application/json">>) @@ corsHeaders(req) ]

PreflightResponse(req) == [status |-> 200, body |-> <<>>, headers |-> corsHeaders(req)]

---------------------------------------------------------------------------
\* The required-field loop: the first field that ends it, and how.

Outcome(kind, field) == [kind |-> kind, field |-> field]

RECURSIVE ValidateFrom(_, _)
ValidateFrom(d, i) ==
    IF i > Len(required) THEN Outcome("ok", "")
    ELSE LET field == required[i] IN
         IF d.kind = "null" THEN Outcome("throw", field)
         ELSE LET v == d.fields[field] IN
              IF v.t \in {"undefined", "null"} THEN Outcome("missing", field)
              ELSE IF v.t # "string" THEN Outcome("throw", field)
              ELSE IF ~Truthy(Str(Trim(v.s))) THEN Outcome("missing", field)
              ELSE ValidateFrom(d, i + 1)

Validate(d) == ValidateFrom(d, 1)

---------------------------------------------------------------------------
\* Outbound messages

ProviderUrl(v) == IF v = "resend" THEN <<"https://api.resend.com/emails">>
                  ELSE <<"https://api.mailchannels.net/tx/v1/send">>

Authorization(v, e) == IF v = "resend" THEN <<"Bearer ">> \o e.RESEND_API_KEY.s ELSE <<>>

toEmail(e) == IF Truthy(e.TO_EMAIL) THEN e.TO_EMAIL.s ELSE DefaultToEmail

NotificationMessage(v, e, d) ==
    [ kind     |-> "notification",
      url      |-> ProviderUrl(v),
      auth     |-> Authorization(v, e),
      from     |-> FromEmail,
      to       |-> toEmail(e),
      reply_to |-> d.fields["email"].s ]

ConfirmationMessage(v, e, d) ==
    [ kind     |-> "confirmation",
      url      |-> ProviderUrl(v),
      auth     |-> Authorization(v, e),
      from     |-> FromEmail,
      to       |-> d.fields["email"].s,
      reply_to |-> <<>> ]

---------------------------------------------------------------------------
\* The handler

VARIABLES
    variant,    \* which deployment handles the request
    env,        \* the Worker's environment bindings
    request,    \* method, Origin header and body of the request
    pc,         \* where fetch() stands: recv, json, notify, confirm, done, threw
    data,       \* the parsed body
    responses,  \* the responses fetch() has returned
    sends,      \* the outbound calls issued, in order
    fetches,    \* what became of each outbound call
    log         \* console.error entries

vars == <<variant, env, request, pc, data, responses, sends, fetches, log>>

Unparsed == [kind |-> "unparsed", fields |-> NoFields]

Init ==
    /\ variant \in Variants
    /\ env \in Envs
    /\ request \in [method : Methods, origin : OriginHeaders, body : Bodies]
    /\ pc = "recv"
    /\ data = Unparsed
    /\ responses = <<>>
    /\ sends = <<>>
    /\ fetches = <<>>
    /\ log = <<>>

Return(r) ==
    /\ responses' = Append(responses, r)
    /\ pc' = "done"

Throw ==
    /\ pc' = "threw"
    /\ UNCHANGED responses

\* The method test placed before the preflight branch: OPTIONS gets the 405.
Preflight_AfterMethodTest ==
    /\ pc = "recv"
    /\ request.method = "OPTIONS"
    /\ Return(jsonResponse(ErrorBody(MsgMethodNotAllowed), 405, request))
    /\ UNCHANGED <<variant, env, request, data, sends, fetches, log>>

\* if (request.method === 'OPTIONS') return new Response(null, ...)
Preflight ==
    /\ pc = "recv"
    /\ request.method = "OPTIONS"
    /\ Return(PreflightResponse(request))
    /\ UNCHANGED <<variant, env, request, data, sends, fetches, log>>

\* if (request.method !== 'POST') return 405
MethodNotAllowed ==
    /\ pc = "recv"
    /\ request.method # "OPTIONS"
    /\ request.method # "POST"
    /\ Return(jsonResponse(ErrorBody(MsgMethodNotAllowed), 405, request))
    /\ UNCHANGED <<variant, env, request, data, sends, fetches, log>>

\* await request.json(): the handler suspends on the body.
ReadBody ==
    /\ pc = "recv"
    /\ request.method = "POST"
    /\ pc' = "json"
    /\ UNCHANGED <<variant, env, request, data, responses, sends, fetches, log>>

\* request.json() rejects: catch { return 400 }
InvalidBody ==
    /\ pc = "json"
    /\ request.body.kind = "malformed"
    /\ Return(jsonResponse(ErrorBody(MsgInvalidBody), 400, request))
    /\ UNCHANGED <<variant, env, request, data, sends, fetches, log>>

Parsed == pc = "json" /\ request.body.kind # "malformed"

\* The loop over the required fields returns 400 at the first missing one.
MissingField ==
    /\ Parsed
    /\ Validate(request.body).kind = "missing"
    /\ data' = request.body
    /\ Return(jsonResponse(ErrorBody(MsgMissingField(Validate(request.body).field)), 400, request))
    /\ UNCHANGED <<variant, env, request, sends, fetches, log>>

\* data[field] on null, or .trim() on a value that is no string: TypeError,
\* which nothing catches.
ValidationThrows ==
    /\ Parsed
    /\ Validate(request.body).kind = "throw"
    /\ data' = request.body
    /\ Throw
    /\ UNCHANGED <<variant, env, request, sends, fetches, log>>

Validated == Parsed /\ Validate(request.body).kind = "ok"

InvalidEmail ==
    /\ Validated
    /\ ~EmailRegexTest(request.body.fields["email"].s)
    /\ data' = request.body
    /\ Return(jsonResponse(ErrorBody(MsgInvalidEmail), 400, request))
    /\ UNCHANGED <<variant, env, request, sends, fetches, log>>

\* The key compared with undefined instead of tested for truth.
KeyMissing_UndefinedOnly == variant = "resend" /\ env.RESEND_API_KEY = Undefined

\* const apiKey = env.RESEND_API_KEY; if (!apiKey) ...  (Resend deployment only)
KeyMissing == variant = "resend" /\ ~Truthy(env.RESEND_API_KEY)

NotConfigured ==
    /\ Validated
    /\ EmailRegexTest(request.body.fields["email"].s)
    /\ KeyMissing
    /\ data' = request.body
    /\ Return(jsonResponse(ErrorBody(MsgNotConfigured), 500, request))
    /\ UNCHANGED <<variant, env, request, sends, fetches, log>>

\* The first fetch is issued and awaited.
SendNotification ==
    /\ Validated
    /\ EmailRegexTest(request.body.fields["email"].s)
    /\ ~KeyMissing
    /\ data' = request.body
    /\ sends' = Append(sends, NotificationMessage(variant, env, request.body))
    /\ fetches' = Append(fetches, "pending")
    /\ pc' = "notify"
    /\ UNCHANGED <<variant, env, request, responses, log>>

\* The provider: an outstanding call resolves with a 2xx or a non-2xx
\* response, or rejects (network failure).
FetchOutcomes == {"ok", "non2xx", "rejected"}

FetchSettles ==
    /\ \E i \in 1..Len(fetches) :
          /\ fetches[i] = "pending"
          /\ \E o \in FetchOutcomes : fetches' = [fetches EXCEPT ![i] = o]
    /\ UNCHANGED <<variant, env, request, pc, data, responses, sends, log>>

\* The failure branch without its return: the error is logged and the
\* handler goes on to the confirmation.
NotificationFailed_NoReturn ==
    /\ pc = "notify"
    /\ fetches[1] = "non2xx"
    /\ log' = Append(log, "provider error")
    /\ sends' = Append(sends, ConfirmationMessage(variant, env, data))
    /\ fetches' = Append(fetches, "pending")
    /\ pc' = "confirm"
    /\ UNCHANGED <<variant, env, request, data, responses>>

\* if (!enquiryRes.ok) { console.error(...); return 500 }
NotificationFailed ==
    /\ pc = "notify"
    /\ fetches[1] = "non2xx"
    /\ log' = Append(log, "provider error")
    /\ Return(jsonResponse(ErrorBody(MsgDeliveryFailed), 500, request))
    /\ UNCHANGED <<variant, env, request, data, sends, fetches>>

\* The awaited fetch rejected: the exception leaves fetch().
NotificationRejected ==
    /\ pc = "notify"
    /\ fetches[1] = "rejected"
    /\ Throw
    /\ UNCHANGED <<variant, env, request, data, sends, fetches, log>>

\* The second fetch issued without await: the 200 is returned at once.
SendConfirmation_NotAwaited ==
    /\ pc = "notify"
    /\ fetches[1] = "ok"
    /\ sends' = Append(sends, ConfirmationMessage(variant, env, data))
    /\ fetches' = Append(fetches, "pending")
    /\ Return(jsonResponse(SuccessBody, 200, request))
    /\ UNCHANGED <<variant, env, request, data, log>>

\* The second fetch is issued and awaited.
SendConfirmation ==
    /\ pc = "notify"
    /\ fetches[1] = "ok"
    /\ sends' = Append(sends, ConfirmationMessage(variant, env, data))
    /\ fetches' = Append(fetches, "pending")
    /\ pc' = "confirm"
    /\ UNCHANGED <<variant, env, request, data, responses, log>>

\* The second fetch resolved, with whatever status: return 200.
Success ==
    /\ pc = "confirm"
    /\ fetches[2] \in {"ok", "non2xx"}
    /\ Return(jsonResponse(SuccessBody, 200, request))
    /\ UNCHANGED <<variant, env, request, data, sends, fetches, log>>

ConfirmationRejected ==
    /\ pc = "confirm"
    /\ fetches[2] = "rejected"
    /\ Throw
    /\ UNCHANGED <<variant, env, request, data, sends, fetches, log>>

Next ==
    \/ Preflight
    \/ MethodNotAllowed
    \/ ReadBody
    \/ InvalidBody
    \/ MissingField
    \/ ValidationThrows
    \/ InvalidEmail
    \/ NotConfigured
    \/ SendNotification
    \/ FetchSettles
    \/ NotificationFailed
    \/ NotificationRejected
    \/ SendConfirmation
    \/ Success
    \/ ConfirmationRejected

Spec == Init /\ [][Next]_vars

---------------------------------------------------------------------------
\* Vocabulary of the properties, stated on the request and its outcome.

Finished == pc \in {"done", "threw"}

IsPost == request.method = "POST"

ParsesAsJson == request.body.kind # "malformed"

\* Absent, null, or a string of nothing but whitespace.
Blank(v) ==
    \/ v.t \in {"undefined", "null"}
    \/ v.t = "string" /\ \A k \in 1..Len(v.s) : IsWhitespace(v.s[k])

NonBlankString(v) == v.t = "string" /\ \E k \in 1..Len(v.s) : ~IsWhitespace(v.s[k])

MissingAt(i) == Blank(request.body.fields[required[i]])

FirstMissing == CHOOSE i \in 1..Len(required) :
                    MissingAt(i) /\ \A j \in 1..(i - 1) : ~MissingAt(j)

\* local "@" domain "." tld, each part non-empty and free of whitespace and "@".
ShapeLocalAtDomainTld(s) ==
    \E i, j \in 1..Len(s) :
        /\ 1 < i /\ i + 1 < j /\ j < Len(s)
        /\ s[i] = "@"
        /\ s[j] = "."
        /\ \A k \in (1..Len(s)) \ {i} : ~IsWhitespace(s[k]) /\ s[k] # "@"

EmailField == request.body.fields["email"]

AllFieldsNonBlankStrings ==
    /\ request.body.kind = "object"
    /\ \A f \in FieldNames : NonBlankString(request.body.fields[f])

ValidPayload == AllFieldsNonBlankStrings /\ ShapeLocalAtDomainTld(EmailField.s)

CredentialPresent == env.RESEND_API_KEY.t = "string" /\ Len(env.RESEND_API_KEY.s) > 0

Responded(status, body) ==
    /\ Len(responses) = 1
    /\ responses[1].status = status
    /\ responses[1].body = body

IsDomainLabel(t) == t \notin {".", "/", "https://", "http://"}

\* One label in front of the site's host, or in front of its domain.
IsDirectSubdomain(o) ==
    /\ Len(o) > 3
    /\ o[1] \in {"https://", "http://"}
    /\ IsDomainLabel(o[2])
    /\ o[3] = "."
    /\ SubSeq(o, 4, Len(o)) \in { SubSeq(ALLOWED_ORIGIN, 2, Len(ALLOWED_ORIGIN)),
                                  SubSeq(ALLOWED_ORIGIN, 4, Len(ALLOWED_ORIGIN)) }

OriginIsSiteOrSubdomain ==
    /\ request.origin.t = "string"
    /\ request.origin.s = ALLOWED_ORIGIN \/ IsDirectSubdomain(request.origin.s)

---------------------------------------------------------------------------
\* C1: a POST whose body parses as JSON and lacks a required field (absent,
\* null or blank) ends with 400 "Missing required field: <name>", <name> the
\* first such field in validation order, whatever the other fields hold.
\* Stated for JSON objects, where the fields of the body are not in doubt.
C1_FirstMissingFieldReported ==
    (IsPost /\ request.body.kind = "object" /\ Finished
        /\ \E i \in 1..Len(required) : MissingAt(i))
        => Responded(400, ErrorBody(MsgMissingField(required[FirstMissing])))

C3_SuccessWhateverConfirmationDoes ==
    (Len(fetches) >= 1 /\ fetches[1] = "ok" /\ Finished) => Responded(200, SuccessBody)

\* C4: on every response Access-Control-Allow-Origin is the request's Origin
\* when that is the canonical site or a direct subdomain, and the canonical
\* site for every other Origin, an absent one included.
C4_AllowOriginOnlyForSite ==
    \A i \in 1..Len(responses) :
        responses[i].headers[HdrOrigin] =
            IF OriginIsSiteOrSubdomain THEN request.origin.s ELSE ALLOWED_ORIGIN

\* C5 as stated: a POST whose JSON body carries an email not of the shape
\* local@domain.tld ends with 400 "Invalid email address", whatever the
\* other fields hold.
C5_InvalidEmailWhateverOtherFields ==
    (IsPost /\ request.body.kind = "object" /\ NonBlankString(EmailField)
        /\ ~ShapeLocalAtDomainTld(EmailField.s) /\ Finished)
        => Responded(400, ErrorBody(MsgInvalidEmail))

\* C5 amended: a POST whose six required fields are all non-blank strings
\* and whose email is not of the shape local@domain.tld issues no send and
\* ends with 400 "Invalid email address".
C5_InvalidEmailAfterRequiredFields ==
    (IsPost /\ AllFieldsNonBlankStrings /\ ~ShapeLocalAtDomainTld(EmailField.s)) =>
        /\ pc \in {"recv", "json", "done"}
        /\ sends = <<>>
        /\ pc = "done" => Responded(400, ErrorBody(MsgInvalidEmail))

C5_Witness ==
    /\ IsPost
    /\ AllFieldsNonBlankStrings
    /\ EmailField.s = <<"a", "@", "a", ".", "a", " ">>
    /\ pc = "done"
    /\ Responded(400, ErrorBody(MsgInvalidEmail))

\* C6: an OPTIONS request never reaches body parsing, validation, the
\* credential check or a send, and its response has no body and carries
\* exactly the three CORS headers.
C6_PreflightShortCircuits ==
    request.method = "OPTIONS" =>
        /\ pc \in {"recv", "done"}
        /\ data = Unparsed
        /\ sends = <<>>
        /\ pc = "done" =>
              /\ Len(responses) = 1
              /\ responses[1].body = <<>>
              /\ DOMAIN responses[1].headers = {HdrOrigin, HdrMethods, HdrHeaders}
              /\ responses[1].headers[HdrMethods] = <<"POST, OPTIONS">>
              /\ responses[1].headers[HdrHeaders] = <<"Content-Type">>

C6_Witness ==
    /\ request.method = "OPTIONS"
    /\ request.body.kind = "malformed"
    /\ variant = "resend"
    /\ ~CredentialPresent
    /\ pc = "done"
    /\ Len(responses) = 1

\* C7: in the bearer deployment a valid POST handled without a credential
\* (absent or empty) ends with 500 "Email service not configured" and no
\* send; that response is given only after the method, body, required-field
\* and email checks have passed.
C7_MissingCredentialIsConfigurationError ==
    /\ (variant = "resend" /\ IsPost /\ ValidPayload /\ ~CredentialPresent) =>
          /\ sends = <<>>
          /\ pc # "threw"
          /\ pc = "done" => Responded(500, ErrorBody(MsgNotConfigured))
    /\ \A i \in 1..Len(responses) :
          responses[i].body = ErrorBody(MsgNotConfigured) =>
              variant = "resend" /\ IsPost /\ ValidPayload /\ ~CredentialPresent

C7_Witness ==
    /\ variant = "resend"
    /\ env.RESEND_API_KEY = Str(<<>>)
    /\ IsPost
    /\ ValidPayload
    /\ pc = "done"
    /\ Responded(500, ErrorBody(MsgNotConfigured))

IsPreflightReply(r) == r.body = <<>> /\ HdrType \notin DOMAIN r.headers

IsJsonReply(r) ==
    /\ r.status \in {200, 400, 405, 500}
    /\ HdrType \in DOMAIN r.headers
    /\ r.headers[HdrType] = <<"application/json">>
    /\ \/ r.status = 200 /\ r.body = SuccessBody
       \/ r.status # 200 /\ Len(r.body) = 1 /\ r.body[1][1] = "error"

\* C8: every request ends with exactly one response, the bodiless preflight
\* reply or a JSON body with status 200, 400, 405 or 500; no failure leaves
\* the handler as an unhandled exception.
C8_OneResponseNeverAnException ==
    /\ pc # "threw"
    /\ Len(responses) <= 1
    /\ pc = "done" =>
          /\ Len(responses) = 1
          /\ IsPreflightReply(responses[1]) \/ IsJsonReply(responses[1])

\* C9 as stated: the confirmation send is dispatched and not waited for, so
\* the step that issues it is the step that produces the response.
C9_ConfirmationNotAwaited ==
    Len(sends) = 2 => Len(responses) = 1

\* C9 amended: the handler waits for the confirmation call to settle; no
\* response is returned while it is outstanding, and once it has resolved
\* the response is the 200 success body whether the provider answered 2xx
\* or non-2xx.
C9_ConfirmationAwaitedStatusIgnored ==
    /\ (Len(fetches) = 2 /\ fetches[2] = "pending") => responses = <<>>
    /\ \A i \in 1..Len(responses) :
          responses[i].body = SuccessBody =>
              Len(fetches) = 2 /\ fetches[2] \in {"ok", "non2xx"}
    /\ (pc = "done" /\ Len(fetches) = 2) =>
          fetches[2] \in {"ok", "non2xx"} /\ Responded(200, SuccessBody)

C9_Witness ==
    /\ pc = "done"
    /\ fetches = <<"ok", "non2xx">>
    /\ Responded(200, SuccessBody)

\* C10: sends follow the pipeline: none unless the method is POST, the body
\* parsed, the six fields are non-blank, the email has the shape and (bearer
\* deployment) the credential is present; at most two, notification then
\* confirmation; a 400 or 405 means no send; a 200 success means the
\* notification send was issued and returned 2xx.
C10_SendsFollowPipeline ==
    /\ sends # <<>> =>
          /\ IsPost /\ ParsesAsJson /\ ValidPayload
          /\ variant = "resend" => CredentialPresent
    /\ Len(sends) <= 2
    /\ Len(fetches) = Len(sends)
    /\ Len(sends) >= 1 => sends[1].kind = "notification"
    /\ Len(sends) = 2 => sends[2].kind = "confirmation"
    /\ \A i \in 1..Len(responses) :
          /\ responses[i].status \in {400, 405} => sends = <<>>
          /\ responses[i].body = SuccessBody =>
                Len(sends) >= 1 /\ fetches[1] = "ok"

C10_Witness ==
    /\ pc = "done"
    /\ Len(sends) = 2
    /\ sends[1].kind = "notification"
    /\ sends[2].kind = "confirmation"
    /\ Responded(200, SuccessBody)

====
